---- MODULE Spec2Model ----
(***************************************************************************)
(* A model of dfa_gf.py: the DFA class (run, minimize) and minimize_dfa,   *)
(* the table-filling minimizer with its nested mark_pair.                  *)
(*                                                                         *)
(* A DFA object is a record; its transition dict is held by reference      *)
(* (an index into heap) so that copying and aliasing are visible.  Dicts   *)
(* are functions with an explicit key order where the code iterates them.  *)
(* A run/minimize call that raises ends with the exception's name.         *)
(***************************************************************************)
EXTENDS Integers, Sequences, FiniteSets, TLC

\* ------------------------------------------------------------------ bounds
\* States of the enumerated input automata are 0 .. n-1 with n <= MaxStates.
MaxStates == 2
\* Input words of run are all words of at most this length (plus the two
\* example words of D0).
MaxWordLen == 2
\* Depth of nested mark_pair calls at which the interpreter gives up
\* (RecursionError); stands for sys.getrecursionlimit().
MaxDepth == 8

\* ------------------------------------------------------------ input values
Sigma == {"a", "b"}

\* sorted(dfa.symbols)
SortedSymbols == <<"a", "b">>

\* delta literal given as the targets of (q,'a'), (q,'b') for q = 0, 1, ...
Delta(tg) ==
    [key \in (0 .. (Len(tg) \div 2) - 1) \X Sigma |->
        tg[2 * key[1] + (IF key[2] = "a" THEN 1 ELSE 2)]]

\* An automaton value: the five constructor arguments, the dict by value.
Automaton(Q, delta, q0, F) ==
    [states |-> Q, symbols |-> Sigma, transitions |-> delta,
     initial_state |-> q0, final_states |-> F]

\* D[0]: a's must not follow b's
D0 == Automaton({0, 1, 2}, Delta(<<0, 1, 2, 1, 2, 2>>), 0, {0, 1})

\* D[1]: a % 2 must equal b % 2
D1 == Automaton({0, 1, 2, 3}, Delta(<<2, 1, 0, 3, 0, 3, 1, 2>>), 0, {0, 3})

\* D[2]: example from minimisation.pdf
D2 == Automaton({0, 1, 2, 3, 4, 5},
                Delta(<<1, 4, 2, 3, 2, 2, 2, 3, 5, 4, 5, 4>>), 0, {2, 3})

\* Three equivalent states (one class of three).
ExTriple == Automaton({0, 1, 2}, Delta(<<2, 0, 2, 0, 2, 2>>), 0, {})

\* Pairs (0,1) and (0,2) each end up in the other's dependency list.
ExMutual == Automaton({0, 1, 2, 3}, Delta(<<0, 0, 2, 3, 1, 0, 3, 3>>), 0, {3})

\* Pair (1,2) has the dependents (0,2), (0,1); (0,2) is marked before (1,2).
ExSkipped == Automaton({0, 1, 2, 3}, Delta(<<1, 0, 2, 0, 2, 3, 3, 3>>), 0, {3})

\* Every complete automaton over Sigma with states 0 .. n-1, n <= MaxStates.
Enumerated ==
    UNION { { Automaton(0 .. n - 1, delta, q0, F) :
                delta \in [(0 .. n - 1) \X Sigma -> 0 .. n - 1],
                q0 \in 0 .. n - 1,
                F \in SUBSET (0 .. n - 1) } : n \in 1 .. MaxStates }

Inputs == Enumerated \cup {D0, D1, D2, ExTriple, ExMutual, ExSkipped}

RECURSIVE WordsOfLen(_)
WordsOfLen(n) ==
    IF n = 0 THEN {<<>>}
    ELSE {<<c>> \o w : c \in Sigma, w \in WordsOfLen(n - 1)}

Words ==
    UNION {WordsOfLen(n) : n \in 0 .. MaxWordLen}
        \cup {<<"a", "a", "a", "b">>, <<"a", "a", "a", "b", "a", "a">>}

\* ------------------------------------------------------------------- state
VARIABLES
    heap,           \* the dict objects: heap[ref] is the dict's content
    dfa,            \* the DFA object minimize_dfa / run is called on
    given,          \* the DFA minimize_dfa was called on, by value (history)
    level,          \* 1: minimize(A) is running, 2: minimize(minimize(A))
    pc,             \* position in minimize_dfa
    err,            \* the exception minimize_dfa ended with, or "none"
    marked,         \* list `marked`
    unmarked,       \* dict `unmarked`, in insertion order: <<[key, deps]>>
    unmarked_copy,  \* keys of `unmarked_copy`, in order
    i, j,           \* position of the scan: pair index, symbol index
    stack,          \* active mark_pair calls, innermost last
    calls,          \* the calls of mark_pair so far, in order (history)
    min_transitions,\* reference of the dict min_transitions (0: unbound)
    k,              \* position of the rebuild loop over unmarked.keys()
    result,         \* the returned DFA object (a record), or <<>>
    cmp,            \* <<>>, or the last comparison of run on A and minimize(A)
    state,          \* attribute self.state of the DFA object
    rpc, word, tmp, ret, arg   \* per caller of run: position and locals

minVars == <<level, pc, err, marked, unmarked, unmarked_copy, i, j, stack,
             calls, min_transitions, k, result, cmp>>
runVars == <<state, rpc, word, tmp, ret, arg>>
vars == <<heap, dfa, given, minVars, runVars>>

Callers == {1, 2}

\* The DFA object built by DFA(Q, Sigma, delta, q0, F): fields are the
\* arguments themselves, the dict by reference.
NewDFA(Q, S, deltaRef, q0, F) ==
    [states |-> Q, symbols |-> S, transitions |-> deltaRef,
     initial_state |-> q0, final_states |-> F]

Init ==
    /\ given \in Inputs
    /\ heap = <<given.transitions>>
    /\ dfa = NewDFA(given.states, given.symbols, 1, given.initial_state,
                    given.final_states)
    /\ level = 1
    /\ pc = "start"
    /\ err = "none"
    /\ marked = <<>>
    /\ unmarked = <<>>
    /\ unmarked_copy = <<>>
    /\ i = 1
    /\ j = 1
    /\ stack = <<>>
    /\ calls = <<>>
    /\ min_transitions = 0
    /\ k = 1
    /\ result = <<>>
    /\ cmp = <<>>
    /\ state = "unset"
    /\ rpc = [t \in Callers |-> "idle"]
    /\ word = [t \in Callers |-> <<>>]
    /\ tmp = [t \in Callers |-> "unset"]
    /\ ret = [t \in Callers |-> "none"]
    /\ arg = [t \in Callers |-> <<>>]

\* --------------------------------------------------------------- DFA.run
\* str(bool)
Bool(b) == IF b THEN "True" ELSE "False"

\* DFA.run as a function of its inputs: the walk of lines 57-62 from
\* `current`, a missing key raising KeyError.
RECURSIVE Walk(_, _, _, _)
Walk(delta, current, F, w) ==
    IF w = <<>> THEN Bool(current \in F)
    ELSE IF <<current, Head(w)>> \notin DOMAIN delta THEN "KeyError"
    ELSE Walk(delta, delta[<<current, Head(w)>>], F, Tail(w))

Run(d, w) == Walk(heap[d.transitions], d.initial_state, d.final_states, w)

\* A caller enters run(word).
RunCall(t) ==
    /\ rpc[t] = "idle"
    /\ \E w \in Words :
        /\ word' = [word EXCEPT ![t] = w]
        /\ arg' = [arg EXCEPT ![t] = w]
    /\ rpc' = [rpc EXCEPT ![t] = "init"]
    /\ UNCHANGED <<heap, dfa, given, minVars, state, tmp, ret>>

\* The position after a statement of the loop: `while word`.
WhileWord(w) == IF w = <<>> THEN "return" ELSE "load"

\* A run that starts from the smallest state instead of the start state.
RunInitFirst(t) ==
    /\ rpc[t] = "init"
    /\ state' = CHOOSE q \in dfa.states : \A x \in dfa.states : q <= x
    /\ rpc' = [rpc EXCEPT ![t] = WhileWord(word[t])]
    /\ UNCHANGED <<heap, dfa, given, minVars, word, tmp, ret, arg>>

\* self.state = self.initial_state
RunInit(t) ==
    /\ rpc[t] = "init"
    /\ state' = dfa.initial_state
    /\ rpc' = [rpc EXCEPT ![t] = WhileWord(word[t])]
    /\ UNCHANGED <<heap, dfa, given, minVars, word, tmp, ret, arg>>

\* The read of self.state in self.transitions[(self.state, word[0])].
RunLoad(t) ==
    /\ rpc[t] = "load"
    /\ tmp' = [tmp EXCEPT ![t] = state]
    /\ rpc' = [rpc EXCEPT ![t] = "store"]
    /\ UNCHANGED <<heap, dfa, given, minVars, state, word, ret, arg>>

\* The lookup, the write of self.state, and word = word[1:].
RunStore(t) ==
    /\ rpc[t] = "store"
    /\ LET key == <<tmp[t], Head(word[t])>>
           delta == heap[dfa.transitions]
       IN  IF key \in DOMAIN delta
           THEN /\ state' = delta[key]
                /\ word' = [word EXCEPT ![t] = Tail(word[t])]
                /\ rpc' = [rpc EXCEPT ![t] = WhileWord(Tail(word[t]))]
                /\ ret' = ret
           ELSE /\ ret' = [ret EXCEPT ![t] = "KeyError"]
                /\ rpc' = [rpc EXCEPT ![t] = "done"]
                /\ UNCHANGED <<state, word>>
    /\ UNCHANGED <<heap, dfa, given, minVars, tmp, arg>>

\* return self.state in self.final_states
RunReturn(t) ==
    /\ rpc[t] = "return"
    /\ ret' = [ret EXCEPT ![t] = Bool(state \in dfa.final_states)]
    /\ rpc' = [rpc EXCEPT ![t] = "done"]
    /\ UNCHANGED <<heap, dfa, given, minVars, state, word, tmp, arg>>

\* The caller takes the result; the object is ready for the next call.
RunDone(t) ==
    /\ rpc[t] = "done"
    /\ rpc' = [rpc EXCEPT ![t] = "idle"]
    /\ ret' = [ret EXCEPT ![t] = "none"]
    /\ word' = [word EXCEPT ![t] = <<>>]
    /\ tmp' = [tmp EXCEPT ![t] = "unset"]
    /\ arg' = [arg EXCEPT ![t] = <<>>]
    /\ UNCHANGED <<heap, dfa, given, minVars, state>>

RunStep(t) ==
    \/ RunCall(t)
    \/ RunInit(t)
    \/ RunLoad(t)
    \/ RunStore(t)
    \/ RunReturn(t)
    \/ RunDone(t)

\* One caller at a time: calls of run follow one another.
NextRun == RunStep(1)

SpecRun == Init /\ [][NextRun]_vars

\* Two callers share the object; their steps interleave.
NextShared == \E t \in Callers : RunStep(t)

SpecShared == Init /\ [][NextShared]_vars

\* ---------------------------------------------------------- minimize_dfa
\* sorted(S) for a set of integers
RECURSIVE Sorted(_)
Sorted(S) ==
    IF S = {} THEN <<>>
    ELSE LET m == CHOOSE x \in S : \A y \in S : x <= y
         IN  <<m>> \o Sorted(S \ {m})

\* for s in states[-1:n:-1], for the r at (1-based) position ri
PairRow(st, ri) ==
    [x \in 1 .. (Len(st) - ri) |-> <<st[ri], st[Len(st) + 1 - x]>>]

\* The keys of `pairs`, in insertion order.
RECURSIVE PairKeys(_, _)
PairKeys(st, ri) ==
    IF ri > Len(st) THEN <<>>
    ELSE PairRow(st, ri) \o PairKeys(st, ri + 1)

\* pairs[(r, s)] after the base marking
BaseMarked(F, rs) == (rs[1] \in F) # (rs[2] \in F)

\* An element of `marked`: a key (a tuple) or a dependency list.
PairItem(rs) == [kind |-> "pair", val |-> rs]
ListItem(deps) == [kind |-> "list", val |-> deps]

\* (p, q) in marked: a tuple never equals a list.
InMarked(m, pq) ==
    \E x \in 1 .. Len(m) : m[x].kind = "pair" /\ m[x].val = pq

\* Dict `unmarked` as a sequence of entries, in insertion order.
UKeys(um) == {um[x].key : x \in 1 .. Len(um)}
UGet(um, key) == um[CHOOSE x \in 1 .. Len(um) : um[x].key = key].deps
UAppend(um, key, v) ==
    [x \in 1 .. Len(um) |->
        IF um[x].key = key THEN [um[x] EXCEPT !.deps = Append(@, v)]
        ELSE um[x]]
UTest(e, key) == e.key # key
UPop(um, key) == SelectSeq(um, LAMBDA e : UTest(e, key))

\* Lines 154-171 and 189: the pair table, the base marking, `marked`,
\* `unmarked` and its copy.
Setup ==
    /\ pc = "start"
    /\ LET keys == PairKeys(Sorted(dfa.states), 1)
           mk(rs) == BaseMarked(dfa.final_states, rs)
           um(rs) == ~BaseMarked(dfa.final_states, rs)
           mkeys == SelectSeq(keys, mk)
           ukeys == SelectSeq(keys, um)
       IN  /\ marked' = [x \in 1 .. Len(mkeys) |-> PairItem(mkeys[x])]
           /\ unmarked' = [x \in 1 .. Len(ukeys) |->
                              [key |-> ukeys[x], deps |-> <<>>]]
           /\ unmarked_copy' = ukeys
    /\ i' = 1
    /\ j' = 1
    /\ pc' = "scan"
    /\ UNCHANGED <<heap, dfa, given, level, err, stack, calls,
                   min_transitions, k, result, cmp, runVars>>

\* A KeyError raised in a mark_pair call whose callers are `rest`: the
\* innermost caller's `except KeyError` ends its loop; with no mark_pair
\* caller it leaves minimize_dfa.
RaiseKeyError(rest) ==
    IF rest = <<>>
    THEN [stack |-> <<>>, pc |-> "failed", err |-> "KeyError"]
    ELSE [stack |-> [rest EXCEPT ![Len(rest)].phase = "pop"],
          pc |-> pc, err |-> err]

\* A call of mark_pair: its argument, and whether it got past line 179.
Called(key, entered) == [key |-> key, entered |-> entered]

\* The call mark_pair(key) made with the active calls `rest`, up to the
\* start of its loop: marked.append(unmarked[key_]).
Enter(key, rest) ==
    IF Len(rest) >= MaxDepth
    THEN [stack |-> <<>>, pc |-> "failed", err |-> "RecursionError",
          marked |-> marked, calls |-> calls]
    ELSE IF key \notin UKeys(unmarked)
    THEN RaiseKeyError(rest) @@
         [marked |-> marked, calls |-> Append(calls, Called(key, FALSE))]
    ELSE [stack |-> Append(rest, [key |-> key, deps |-> UGet(unmarked, key),
                                  n |-> 1, phase |-> "loop"]),
          pc |-> pc, err |-> err,
          marked |-> Append(marked, ListItem(UGet(unmarked, key))),
          calls |-> Append(calls, Called(key, TRUE))]

\* Where the scan goes after `continue` / the end of the loop body.
NextSymbol ==
    IF j < Len(SortedSymbols) THEN <<i, j + 1>> ELSE <<i + 1, 1>>

\* One iteration of the scan (lines 190-207): pair unmarked_copy[i],
\* symbol SortedSymbols[j].
ScanStep ==
    /\ pc = "scan"
    /\ stack = <<>>
    /\ i <= Len(unmarked_copy)
    /\ LET r == unmarked_copy[i][1]
           s == unmarked_copy[i][2]
           symbol == SortedSymbols[j]
           delta == heap[dfa.transitions]
       IN  IF <<r, symbol>> \notin DOMAIN delta
              \/ <<s, symbol>> \notin DOMAIN delta
           THEN /\ pc' = "failed"
                /\ err' = "KeyError"
                /\ UNCHANGED <<marked, unmarked, i, j, stack, calls>>
           ELSE LET p == delta[<<r, symbol>>]
                    q == delta[<<s, symbol>>]
                IN  IF p = q \/ (p = r /\ q = s)
                    THEN /\ i' = NextSymbol[1]
                         /\ j' = NextSymbol[2]
                         /\ UNCHANGED <<pc, err, marked, unmarked, stack,
                                        calls>>
                    ELSE IF InMarked(marked, <<p, q>>)
                    THEN LET e == Enter(<<r, s>>, <<>>)
                         IN  /\ stack' = e.stack
                             /\ pc' = e.pc
                             /\ err' = e.err
                             /\ marked' = e.marked
                             /\ calls' = e.calls
                             /\ i' = i + 1
                             /\ j' = 1
                             /\ UNCHANGED unmarked
                    ELSE IF <<p, q>> \in UKeys(unmarked)
                    THEN /\ unmarked' = UAppend(unmarked, <<p, q>>, <<r, s>>)
                         /\ i' = NextSymbol[1]
                         /\ j' = NextSymbol[2]
                         /\ UNCHANGED <<pc, err, marked, stack, calls>>
                    ELSE /\ pc' = "failed"
                         /\ err' = "KeyError"
                         /\ UNCHANGED <<marked, unmarked, i, j, stack, calls>>
    /\ UNCHANGED <<heap, dfa, given, level, unmarked_copy, min_transitions,
                   k, result, cmp, runVars>>

\* mark_pair, line 181-182: the next element of the dependency list is
\* passed to mark_pair.
MarkLoop ==
    /\ pc = "scan"
    /\ stack # <<>>
    /\ LET top == stack[Len(stack)]
       IN  /\ top.phase = "loop"
           /\ top.n <= Len(top.deps)
           /\ LET e == Enter(top.deps[top.n],
                             [stack EXCEPT ![Len(stack)].n = top.n + 1])
              IN  /\ stack' = e.stack
                  /\ pc' = e.pc
                  /\ err' = e.err
                  /\ marked' = e.marked
                  /\ calls' = e.calls
    /\ UNCHANGED <<heap, dfa, given, level, unmarked, unmarked_copy, i, j,
                   min_transitions, k, result, cmp, runVars>>

\* mark_pair, line 185: after the loop (or the caught KeyError),
\* unmarked.pop(key_), and the return to the caller.
MarkReturn ==
    /\ pc = "scan"
    /\ stack # <<>>
    /\ LET top == stack[Len(stack)]
           rest == SubSeq(stack, 1, Len(stack) - 1)
       IN  /\ top.phase = "pop" \/ top.n > Len(top.deps)
           /\ IF top.key \in UKeys(unmarked)
              THEN /\ unmarked' = UPop(unmarked, top.key)
                   /\ stack' = rest
                   /\ UNCHANGED <<pc, err>>
              ELSE LET e == RaiseKeyError(rest)
                   IN  /\ stack' = e.stack
                       /\ pc' = e.pc
                       /\ err' = e.err
                       /\ UNCHANGED unmarked
    /\ UNCHANGED <<heap, dfa, given, level, marked, unmarked_copy, i, j,
                   calls, min_transitions, k, result, cmp, runVars>>

\* min_transitions = dfa.transitions: the same dict object.
NoCopy(h, ref) == [heap |-> h, ref |-> ref]

\* deepcopy(d) of the dict at `ref`: a new dict object with equal content.
DeepCopy(h, ref) == [heap |-> Append(h, h[ref]), ref |-> Len(h) + 1]

\* d[key] = v and d.pop(key) on a dict's content
Put(m, key, v) ==
    [x \in DOMAIN m \cup {key} |-> IF x = key THEN v ELSE m[x]]
Del(m, key) == [x \in DOMAIN m \ {key} |-> m[x]]

\* dfa.transitions.items() visits the keys in the dict's insertion order;
\* the loop body touches min_transitions[key_] only, so the order decides
\* nothing but which missing key a KeyError names.  Keys are visited by
\* state, then symbol.
KeyBefore(a, b) == a[1] < b[1] \/ (a[1] = b[1] /\ a[2] = "a" /\ b[2] = "b")

RECURSIVE Items(_)
Items(S) ==
    IF S = {} THEN <<>>
    ELSE LET m == CHOOSE x \in S : \A y \in S \ {x} : KeyBefore(x, y)
         IN  <<m>> \o Items(S \ {m})

\* Lines 213-217 for one unmarked pair (p, q), from item x on: the content
\* of min_transitions afterwards, and whether pop found its key.
RECURSIVE Redirect(_, _, _, _, _, _)
Redirect(m, delta, items, x, p, q) ==
    IF x > Len(items) THEN [ok |-> TRUE, map |-> m]
    ELSE LET key_ == items[x]
             value_ == delta[key_]
             m1 == IF value_ = q THEN Put(m, key_, p) ELSE m
         IN  IF key_[1] = q
             THEN IF key_ \in DOMAIN m1
                  THEN Redirect(Del(m1, key_), delta, items, x + 1, p, q)
                  ELSE [ok |-> FALSE, map |-> m1]
             ELSE Redirect(m1, delta, items, x + 1, p, q)

\* Line 211: the scan is over; min_transitions = deepcopy(dfa.transitions).
ScanDone ==
    /\ pc = "scan"
    /\ stack = <<>>
    /\ i > Len(unmarked_copy)
    /\ LET c == DeepCopy(heap, dfa.transitions)
       IN  /\ heap' = c.heap
           /\ min_transitions' = c.ref
    /\ k' = 1
    /\ pc' = "rebuild"
    /\ UNCHANGED <<dfa, given, level, err, marked, unmarked, unmarked_copy,
                   i, j, stack, calls, result, cmp, runVars>>

\* Lines 212-217: one iteration of `for (p, q) in unmarked.keys()`.
RebuildStep ==
    /\ pc = "rebuild"
    /\ k <= Len(unmarked)
    /\ LET pq == unmarked[k].key
           delta == heap[dfa.transitions]
           r == Redirect(heap[min_transitions], delta, Items(DOMAIN delta),
                         1, pq[1], pq[2])
       IN  /\ heap' = [heap EXCEPT ![min_transitions] = r.map]
           /\ IF r.ok
              THEN /\ k' = k + 1
                   /\ UNCHANGED <<pc, err>>
              ELSE /\ pc' = "failed"
                   /\ err' = "KeyError"
                   /\ k' = k
    /\ UNCHANGED <<dfa, given, level, marked, unmarked, unmarked_copy, i, j,
                   stack, calls, min_transitions, result, cmp, runVars>>

\* Lines 221-227: the returned DFA.
Return ==
    /\ pc = "rebuild"
    /\ k > Len(unmarked)
    /\ result' = NewDFA(dfa.states, dfa.symbols, min_transitions,
                        dfa.initial_state, dfa.final_states)
    /\ pc' = "done"
    /\ UNCHANGED <<heap, dfa, given, level, err, marked, unmarked,
                   unmarked_copy, i, j, stack, calls, min_transitions, k,
                   cmp, runVars>>

\* The caller runs a word on the automaton and on its minimization.
Compare ==
    /\ pc = "done"
    /\ level = 1
    /\ \E w \in Words :
        cmp' = <<[w |-> w, a |-> Run(dfa, w), m |-> Run(result, w)]>>
    /\ UNCHANGED <<heap, dfa, given, level, pc, err, marked, unmarked,
                   unmarked_copy, i, j, stack, calls, min_transitions, k,
                   result, runVars>>

\* The value of a DFA object: its fields, the dict by content.
ValueOf(d) ==
    [states |-> d.states, symbols |-> d.symbols,
     transitions |-> heap[d.transitions],
     initial_state |-> d.initial_state, final_states |-> d.final_states]

\* DFA.minimize (line 75) on the returned automaton: minimize_dfa(result).
MinimizeAgain ==
    /\ pc = "done"
    /\ level = 1
    /\ level' = 2
    /\ dfa' = result
    /\ given' = ValueOf(result)
    /\ pc' = "start"
    /\ marked' = <<>>
    /\ unmarked' = <<>>
    /\ unmarked_copy' = <<>>
    /\ i' = 1
    /\ j' = 1
    /\ calls' = <<>>
    /\ min_transitions' = 0
    /\ k' = 1
    /\ result' = <<>>
    /\ cmp' = <<>>
    /\ UNCHANGED <<heap, err, stack, runVars>>

Next ==
    \/ Setup
    \/ ScanStep
    \/ MarkLoop
    \/ MarkReturn
    \/ ScanDone
    \/ RebuildStep
    \/ Return
    \/ Compare
    \/ MinimizeAgain

Spec == Init /\ [][Next]_vars

\* ------------------------------------------------------- reference notions
\* The automaton's transition function is total on states x symbols.
Complete(g) == DOMAIN g.transitions = g.states \X g.symbols

\* The state reached from q0 after the first n symbols of w.
RECURSIVE StateAfter(_, _, _)
StateAfter(g, w, n) ==
    IF n = 0 THEN g.initial_state
    ELSE g.transitions[<<StateAfter(g, w, n - 1), w[n]>>]

\* The pairs some word tells apart: the least set holding the pairs with
\* exactly one accepting state and closed under predecessors.
RECURSIVE DistClosure(_, _)
DistClosure(g, dist) ==
    LET more == dist \cup
                {rs \in g.states \X g.states :
                    \E a \in g.symbols :
                        <<g.transitions[<<rs[1], a>>],
                          g.transitions[<<rs[2], a>>]>> \in dist}
    IN  IF more = dist THEN dist ELSE DistClosure(g, more)

Distinguishable(g) ==
    DistClosure(g, {rs \in g.states \X g.states :
                        (rs[1] \in g.final_states) # (rs[2] \in g.final_states)})

\* The smallest state of the equivalence class of s.
Representative(g, s) ==
    CHOOSE r \in g.states :
        /\ <<r, s>> \notin Distinguishable(g)
        /\ \A x \in g.states : <<x, s>> \notin Distinguishable(g) => r <= x

Representatives(g) == {Representative(g, s) : s \in g.states}

\* ------------------------------------------------------------------ claims
\* C1: for every complete automaton A and word w, run(minimize(A), w)
\* returns the same boolean as run(A, w), and does not fail.
LanguageEquivalence ==
    (level = 1 /\ pc = "done" /\ cmp # <<>>) => cmp[1].m = cmp[1].a

\* C2: run returns true iff the state reached from the start state by
\* applying the transition function once per symbol, in order, is
\* accepting (for the empty word: iff the start state is accepting); on D0
\* run("aaab") = true, run("aaabaa") = false, run("") = true.
RunCorrect ==
    rpc[1] = "done" =>
        /\ ret[1] = Bool(StateAfter(given, arg[1], Len(arg[1]))
                            \in given.final_states)
        /\ arg[1] = <<>> =>
              ret[1] = Bool(given.initial_state \in given.final_states)
        /\ given = D0 =>
              /\ arg[1] = <<"a", "a", "a", "b">> => ret[1] = "True"
              /\ arg[1] = <<"a", "a", "a", "b", "a", "a">> => ret[1] = "False"
              /\ arg[1] = <<>> => ret[1] = "True"

\* A second call of run on D0 has returned false for "aaabaa".
RunCorrectWitness ==
    /\ given = D0
    /\ rpc[1] = "done"
    /\ arg[1] = <<"a", "a", "a", "b", "a", "a">>
    /\ ret[1] = "False"
    /\ rpc[2] = "idle"

\* C3: the state set of minimize(A) is exactly the set of class
\* representatives, one per equivalence class of A's states; for D2 the
\* returned automaton has exactly 4 states.
StatesAreRepresentatives ==
    (level = 1 /\ pc = "done") =>
        /\ result.states = Representatives(given)
        /\ given = D2 => Cardinality(result.states) = 4

\* C4: minimize of a complete automaton returns an automaton and never
\* ends in a runtime failure.
MinimizeTotal == level = 1 => pc # "failed"

\* C5: minimize can be applied to minimize(A), and the result has as many
\* states as minimize(A).
Idempotent ==
    level = 2 =>
        /\ pc # "failed"
        /\ pc = "done" =>
              Cardinality(result.states) = Cardinality(dfa.states)

\* C6: minimize never mutates its input: at every point of the call, also
\* after it returned or failed, the input's state set, alphabet,
\* transition map, start state and accepting set are what they were at the
\* call, and the transition map of the result is another dict object.
InputUnchanged ==
    /\ ValueOf(dfa) = given
    /\ min_transitions # 0 => min_transitions # dfa.transitions
    /\ pc = "done" => result.transitions # dfa.transitions

\* minimize returned an automaton whose dict differs from the input's.
InputUnchangedWitness ==
    /\ level = 1
    /\ pc = "done"
    /\ heap[result.transitions] # given.transitions

\* C7: two run calls on one automaton, interleaved at the reads and writes
\* of the current state, each return what they return when executed alone.
SharedRunIndependent ==
    \A t \in Callers :
        rpc[t] = "done" =>
            ret[t] = Bool(StateAfter(given, arg[t], Len(arg[t]))
                              \in given.final_states)

\* C8: when the marking phase has finished, a pair of distinct states is
\* still a key of `unmarked` iff no word tells the two states apart.
MarkingIsMyhillNerode ==
    (level = 1 /\ pc = "rebuild") =>
        UKeys(unmarked) =
            {rs \in given.states \X given.states :
                rs[1] < rs[2] /\ rs \notin Distinguishable(given)}

\* C9: the propagation started by marking a pair stops, and no pair is
\* processed by mark_pair a second time.
MarkedAtMostOnce ==
    level = 1 =>
        /\ err # "RecursionError"
        /\ \A x, y \in 1 .. Len(calls) :
              (x # y /\ calls[x].entered /\ calls[y].entered)
                  => calls[x].key # calls[y].key

\* C10: in minimize(A), every class representative s has, for every symbol
\* a, the transition (s, a) -> representative of A's transition(s, a).
QuotientTransitions ==
    (level = 1 /\ pc = "done") =>
        \A s \in Representatives(given), a \in given.symbols :
            /\ <<s, a>> \in DOMAIN heap[result.transitions]
            /\ heap[result.transitions][<<s, a>>] =
                  Representative(given, given.transitions[<<s, a>>])

====
